---- MODULE Spec2Model ----
(***************************************************************************)
(* Model of kbd_backlight.cpp: the keyboard backlight daemon.              *)
(*                                                                         *)
(* One main thread (startup, then brightness_control, then shutdown), one  *)
(* read_events thread per discovered input device, the signal handler and  *)
(* the environment (clock, input events, an external writer of the control *)
(* file, I/O failures).  The globals lastEvent_, originalBrightness_,      *)
(* currentBrightness_ and end_ are plain unsynchronised variables, so the  *)
(* threads interleave between any two source statements that touch shared  *)
(* state; every such statement is one action.                              *)
(*                                                                         *)
(* Time is kept relative: sinceLastEvent is now() - lastEvent_ in ticks,   *)
(* saturated at TimeoutTicks (the code only compares it with the timeout). *)
(***************************************************************************)
EXTENDS Integers, Sequences, FiniteSets

\* ---------------------------------------------------------------- bounds
MaxBrightness == 2          \* control file values are 0..MaxBrightness
TimeoutTicks == 2           \* the configured timeout (-t), in clock ticks
MaxEvents == 4              \* length of an event burst fed to the key filter

\* ------------------------------------------------------ program constants
EV_SYN == 0                 \* linux/input.h; the type of a zeroed input_event
EV_KEY == 1
EV_MSC == 4
MSC_SCAN == 4
SuppressWindow == 2         \* ignoreNextValues = 2
NoSetBrightness == -1       \* long setBrightness = -1

Values == 0..MaxBrightness
Devices == {"kbd", "mouse"}
DeviceOrder == <<"kbd", "mouse">>
KeyCodes == {30, 42}
\* One event of each kind the filter tells apart: a scan code of each key, a
\* key press, a report of another type.
Events ==
  { [type |-> EV_MSC, code |-> MSC_SCAN, value |-> 42],
    [type |-> EV_MSC, code |-> MSC_SCAN, value |-> 30],
    [type |-> EV_KEY, code |-> 30, value |-> 1],
    [type |-> EV_SYN, code |-> 0, value |-> 0] }
ZeroEvent == [type |-> EV_SYN, code |-> 0, value |-> 0]
\* The keyboard is an evdev node.  The mouse is /dev/input/mice (mouse mode
\* ALL, the default), whose records are raw 3 byte packets: they leave type
\* and code of the zeroed input_event untouched.
DeviceEvents(d) == IF d = "kbd" THEN Events ELSE {ZeroEvent}

IOok == {TRUE}
IOany == {TRUE, FALSE}

VARIABLES
  \* configuration and environment, fixed at startup
  setBrightness,        \* -s value, NoSetBrightness when absent
  devState,             \* per device: "none" (not discovered), "ok", "bad" (open fails)
  pathState,            \* control path: "missing", "unreadable", "readonly", "ok"
  ignoredKeys,          \* keys of the ignoredKeys map (every mapped value is true)
  \* the control file and the globals
  file,
  originalBrightness_,
  currentBrightness_,
  sinceLastEvent,       \* now() - lastEvent_
  end_,
  \* main / brightness_control
  mpc,                  \* "start", "run", "closing", "exit_ok", "exit_fail"
  cpc,                  \* position of brightness_control
  tmpBrightness,
  sleepLeft,
  closeIdx,             \* index of the next fd main closes (lines 531-533)
  \* read_events, per device
  rpc,
  ignoreNextValues,
  rd,                   \* rd of the record being handled: "none", "ev", "err"
  fds,                  \* handle: "none", "open", "bad" (-1), "closed"
  closes,               \* how often the handle has been closed
  \* key filter driven alone (FilterSpec)
  fHist,
  \* history variables
  ctlOff,               \* the last write to the file was the controller's 0
  sawOff,               \* per reader: its event was accepted while ctlOff
  offDone,              \* the controller wrote 0 in the current idle period
  lostRestore           \* a reader's write failed, no write has succeeded since

cfgVars == <<setBrightness, devState, pathState, ignoredKeys>>
globVars == <<file, originalBrightness_, currentBrightness_, sinceLastEvent, end_>>
ctlVars == <<mpc, cpc, tmpBrightness, sleepLeft, closeIdx>>
rdrVars == <<rpc, ignoreNextValues, rd, fds, closes>>
histVars == <<ctlOff, sawOff, offDone, lostRestore>>
vars == <<cfgVars, globVars, ctlVars, rdrVars, fHist, histVars>>

Min(a, b) == IF a < b THEN a ELSE b
Max(a, b) == IF a > b THEN a ELSE b

\* ------------------------------------------------------------ key filter
\* ignoredKeys.find(v)->second: for a key outside the map find() returns end(),
\* whose dereference is undefined; ub is the value that read yields.
IsIgnored(keys, v, ub) == IF v \in keys THEN TRUE ELSE ub

IsScan(ie) == ie.type = EV_MSC /\ ie.code = MSC_SCAN

\* Lines 292-308: the classification of one event record.
KeyFilter(ie, ign, keys, ub) ==
  IF IsScan(ie)
  THEN IF IsIgnored(keys, ie.value, ub)
       THEN [correctKey |-> FALSE, ign |-> SuppressWindow]
       ELSE [correctKey |-> TRUE, ign |-> ign]
  ELSE IF ign > 0
       THEN [correctKey |-> FALSE, ign |-> ign - 1]
       ELSE [correctKey |-> TRUE, ign |-> ign]

\* ------------------------------------------------------------------ init
Discovered == {d \in Devices : devState[d] # "none"}
Handling(d) == rpc[d] \in {"test", "write", "setcur"}
Alive == mpc \in {"run", "closing"}

DeviceConfigs ==
  { [kbd |-> "none", mouse |-> "none"], [kbd |-> "ok", mouse |-> "none"],
    [kbd |-> "ok", mouse |-> "ok"], [kbd |-> "ok", mouse |-> "bad"] }

InitState ==
  /\ file \in Values
  /\ originalBrightness_ = 0
  /\ currentBrightness_ = 0
  /\ sinceLastEvent = 0
  /\ end_ = FALSE
  /\ mpc = "start"
  /\ cpc = "none"
  /\ tmpBrightness = 0
  /\ sleepLeft = 0
  /\ closeIdx = 1
  /\ rpc = [d \in Devices |-> "none"]
  /\ ignoreNextValues = [d \in Devices |-> 0]
  /\ rd = [d \in Devices |-> "none"]
  /\ fds = [d \in Devices |-> "none"]
  /\ closes = [d \in Devices |-> 0]
  /\ fHist = <<>>
  /\ ctlOff = FALSE
  /\ sawOff = [d \in Devices |-> FALSE]
  /\ offDone = FALSE
  /\ lostRestore = FALSE

Init ==
  /\ setBrightness \in {NoSetBrightness} \cup Values
  /\ devState \in DeviceConfigs
  /\ pathState \in {"missing", "unreadable", "readonly", "ok"}
  /\ ignoredKeys = {42}
  /\ InitState

\* A run with every device openable and the control path in order.
InitQuiet ==
  /\ setBrightness = NoSetBrightness
  /\ devState \in {c \in DeviceConfigs : \A d \in Devices : c[d] \in {"none", "ok"}}
  /\ Discovered # {}
  /\ pathState = "ok"
  /\ ignoredKeys = {42}
  /\ InitState

\* ------------------------------------------------------------------ main
\* A one-shot test that takes a request of 0 for no request.
OneShot_Positive == setBrightness > 0

\* Line 499: a one-shot request was given.
OneShot == setBrightness >= 0

\* Lines 468-527: device discovery, the checks, one-shot mode, the start of
\* the readers.  No other thread exists yet, so the block is one step.
\* daemonOk is the outcome of daemon(0, 0).
Main_Start(daemonOks) ==
  /\ mpc = "start"
  /\ UNCHANGED <<cfgVars, end_, tmpBrightness, sleepLeft, closeIdx,
                 ignoreNextValues, rd, closes, fHist, histVars>>
  /\ IF Discovered = {}
     THEN \* line 490
          /\ mpc' = "exit_fail"
          /\ UNCHANGED <<file, originalBrightness_, currentBrightness_,
                         sinceLastEvent, cpc, rpc, fds>>
     ELSE IF pathState \in {"missing", "unreadable"}
     THEN \* is_brightness_writable: the path is missing or the read fails
          /\ mpc' = "exit_fail"
          /\ UNCHANGED <<file, originalBrightness_, currentBrightness_,
                         sinceLastEvent, cpc, rpc, fds>>
     ELSE IF pathState = "readonly"
     THEN \* the read has set originalBrightness_, the write back fails
          /\ mpc' = "exit_fail"
          /\ originalBrightness_' = file
          /\ UNCHANGED <<file, currentBrightness_, sinceLastEvent, cpc, rpc, fds>>
     ELSE IF OneShot
     THEN \* lines 499-502; the write follows the successful write back of
          \* is_brightness_writable in the same step, its result is not read
          /\ originalBrightness_' = file
          /\ file' = setBrightness
          /\ mpc' = "exit_ok"
          /\ UNCHANGED <<currentBrightness_, sinceLastEvent, cpc, rpc, fds>>
     ELSE \* lines 504-527
          /\ originalBrightness_' = file
          /\ currentBrightness_' = file
          /\ fds' = [d \in Devices |-> CASE devState[d] = "ok" -> "open"
                                         [] devState[d] = "bad" -> "bad"
                                         [] OTHER -> "none"]
          /\ sinceLastEvent' = 0
          /\ UNCHANGED file
          /\ \E daemonOk \in daemonOks :
               IF daemonOk
               THEN /\ rpc' = [d \in Devices |->
                                 IF d \in Discovered THEN "loop" ELSE "none"]
                    /\ cpc' = "start"
                    /\ mpc' = "run"
               ELSE /\ mpc' = "exit_fail"
                    /\ UNCHANGED <<cpc, rpc>>

\* Lines 531-533: main closes every fd after brightness_control returned.
Main_Close ==
  /\ mpc = "closing"
  /\ closeIdx <= Len(DeviceOrder)
  /\ LET d == DeviceOrder[closeIdx] IN
       IF fds[d] \in {"open", "closed"}
       THEN /\ fds' = [fds EXCEPT ![d] = "closed"]
            /\ closes' = [closes EXCEPT ![d] = Min(@ + 1, 2)]
       ELSE UNCHANGED <<fds, closes>>
  /\ closeIdx' = closeIdx + 1
  /\ UNCHANGED <<cfgVars, globVars, mpc, cpc, tmpBrightness, sleepLeft,
                 rpc, ignoreNextValues, rd, fHist, histVars>>

\* Line 535: exit(0), which ends every thread.
Main_Exit ==
  /\ mpc = "closing"
  /\ closeIdx > Len(DeviceOrder)
  /\ mpc' = "exit_ok"
  /\ UNCHANGED <<cfgVars, globVars, cpc, tmpBrightness, sleepLeft, closeIdx,
                 rdrVars, fHist, histVars>>

\* ---------------------------------------------------- brightness_control
\* Line 242.
Ctl_Start ==
  /\ mpc = "run" /\ cpc = "start"
  /\ tmpBrightness' = currentBrightness_
  /\ cpc' = "loop"
  /\ UNCHANGED <<cfgVars, globVars, mpc, sleepLeft, closeIdx, rdrVars, fHist, histVars>>

\* A loop test that does not look at end_.
Ctl_Loop_NoEnd ==
  /\ mpc = "run" /\ cpc = "loop"
  /\ cpc' = "calc"
  /\ UNCHANGED <<cfgVars, globVars, mpc, tmpBrightness, sleepLeft, closeIdx,
                 rdrVars, fHist, histVars>>

\* Line 243: while (!end_); on exit control returns to main.
Ctl_Loop ==
  /\ mpc = "run" /\ cpc = "loop"
  /\ IF end_
     THEN cpc' = "done" /\ mpc' = "closing"
     ELSE cpc' = "calc" /\ UNCHANGED mpc
  /\ UNCHANGED <<cfgVars, globVars, tmpBrightness, sleepLeft, closeIdx,
                 rdrVars, fHist, histVars>>

\* Lines 244-254: sleep for timeout - passed when lastEvent_ < now() and the
\* difference is not 0 (a negative duration returns at once).
Ctl_Calc ==
  /\ mpc = "run" /\ cpc = "calc"
  /\ IF sinceLastEvent > 0 /\ TimeoutTicks - sinceLastEvent # 0
     THEN /\ sleepLeft' = Max(TimeoutTicks - sinceLastEvent, 0)
          /\ cpc' = "sleep"
     ELSE /\ cpc' = "check"
          /\ UNCHANGED sleepLeft
  /\ UNCHANGED <<cfgVars, globVars, mpc, tmpBrightness, closeIdx, rdrVars,
                 fHist, histVars>>

\* sleep_for returns once at least the duration has passed.
Ctl_Wake ==
  /\ mpc = "run" /\ cpc = "sleep"
  /\ sleepLeft = 0
  /\ cpc' = "check"
  /\ UNCHANGED <<cfgVars, globVars, mpc, tmpBrightness, sleepLeft, closeIdx,
                 rdrVars, fHist, histVars>>

\* Lines 256-260.
Ctl_Check ==
  /\ mpc = "run" /\ cpc = "check"
  /\ cpc' = IF sinceLastEvent >= TimeoutTicks THEN "read" ELSE "loop"
  /\ UNCHANGED <<cfgVars, globVars, mpc, tmpBrightness, sleepLeft, closeIdx,
                 rdrVars, fHist, histVars>>

\* Lines 264-265: file_read_uint64 leaves tmpBrightness alone when it fails;
\* its result is not looked at.
Ctl_Read(oks) ==
  /\ mpc = "run" /\ cpc = "read"
  /\ \E ok \in oks :
       /\ tmpBrightness' = IF ok THEN file ELSE tmpBrightness
       /\ cpc' = IF tmpBrightness' # 0 THEN "setorig" ELSE "rearm"
  /\ UNCHANGED <<cfgVars, globVars, mpc, sleepLeft, closeIdx, rdrVars, fHist, histVars>>

\* Line 266.
Ctl_SetOrig ==
  /\ mpc = "run" /\ cpc = "setorig"
  /\ originalBrightness_' = tmpBrightness
  /\ cpc' = "setcur"
  /\ UNCHANGED <<cfgVars, file, currentBrightness_, sinceLastEvent, end_, mpc,
                 tmpBrightness, sleepLeft, closeIdx, rdrVars, fHist, histVars>>

\* Line 267.
Ctl_SetCur ==
  /\ mpc = "run" /\ cpc = "setcur"
  /\ currentBrightness_' = 0
  /\ cpc' = "write"
  /\ UNCHANGED <<cfgVars, file, originalBrightness_, sinceLastEvent, end_, mpc,
                 tmpBrightness, sleepLeft, closeIdx, rdrVars, fHist, histVars>>

\* Line 268: file_write_uint64(brightnessPath, 0), result not looked at.
Ctl_Write(oks) ==
  /\ mpc = "run" /\ cpc = "write"
  /\ \E ok \in oks :
       IF ok
       THEN /\ file' = 0
            /\ ctlOff' = TRUE
            /\ offDone' = IF \E d \in Devices : Handling(d)
                          THEN offDone ELSE TRUE
            /\ lostRestore' = FALSE
       ELSE UNCHANGED <<file, ctlOff, offDone, lostRestore>>
  /\ cpc' = "rearm"
  /\ UNCHANGED <<cfgVars, originalBrightness_, currentBrightness_, sinceLastEvent,
                 end_, mpc, tmpBrightness, sleepLeft, closeIdx, rdrVars, fHist,
                 sawOff>>

\* A firing that goes back to the loop test with lastEvent_ as it was.
Ctl_Rearm_Skip ==
  /\ mpc = "run" /\ cpc = "rearm"
  /\ cpc' = "loop"
  /\ UNCHANGED <<cfgVars, globVars, mpc, tmpBrightness, sleepLeft, closeIdx,
                 rdrVars, fHist, histVars>>

\* Line 275.
Ctl_Rearm ==
  /\ mpc = "run" /\ cpc = "rearm"
  /\ sinceLastEvent' = 0
  /\ cpc' = "loop"
  /\ UNCHANGED <<cfgVars, file, originalBrightness_, currentBrightness_, end_, mpc,
                 tmpBrightness, sleepLeft, closeIdx, rdrVars, fHist, histVars>>

\* ----------------------------------------------------------- read_events
\* Line 283: while (!end_).
R_Loop(d) ==
  /\ Alive /\ rpc[d] = "loop"
  /\ rpc' = [rpc EXCEPT ![d] = IF end_ THEN "close" ELSE "read"]
  /\ UNCHANGED <<cfgVars, globVars, ctlVars, ignoreNextValues, rd, fds, closes,
                 fHist, histVars>>

\* What read() can return: -1 on a handle that is not open; else an event,
\* 0, or (errs) an error.
ReadResults(d, errs) ==
  IF fds[d] # "open" THEN {"err"}
  ELSE {"ev", "zero"} \cup (IF FALSE \in errs THEN {"err"} ELSE {})

\* A reader that sets lastEvent_ for every record it read, accepted or not.
R_Read_StampAll(d, errs) ==
  /\ Alive /\ rpc[d] = "read"
  /\ \E res \in ReadResults(d, errs), ev \in DeviceEvents(d), ub \in BOOLEAN :
       LET ie == IF res = "ev" THEN ev ELSE ZeroEvent
           k == KeyFilter(ie, ignoreNextValues[d], ignoredKeys, ub)
       IN  IF res = "zero"
           THEN /\ rpc' = [rpc EXCEPT ![d] = "loop"]
                /\ UNCHANGED <<ignoreNextValues, rd, sinceLastEvent, sawOff, offDone>>
           ELSE /\ ignoreNextValues' = [ignoreNextValues EXCEPT ![d] = k.ign]
                /\ IF k.correctKey
                   THEN /\ rpc' = [rpc EXCEPT ![d] = "test"]
                        /\ rd' = [rd EXCEPT ![d] = res]
                        /\ sinceLastEvent' = 0
                   ELSE /\ rpc' = [rpc EXCEPT ![d] = "loop"]
                        /\ sinceLastEvent' = 0
                        /\ UNCHANGED rd
                /\ IF k.correctKey /\ res = "ev"
                   THEN /\ sawOff' = [sawOff EXCEPT ![d] = ctlOff /\ file = 0]
                        /\ offDone' = FALSE
                   ELSE UNCHANGED <<sawOff, offDone>>
  /\ UNCHANGED <<cfgVars, file, originalBrightness_, currentBrightness_, end_,
                 ctlVars, fds, closes, fHist, ctlOff, lostRestore>>

\* Lines 284-316: the read, the classification of what it returned (which
\* touch only the reader's locals) and, for an accepted record, the store to
\* lastEvent_.  ie is zeroed before the read, so a failed read leaves
\* ZeroEvent in it and rd != 0 sends it through the filter.
R_Read(d, errs) ==
  /\ Alive /\ rpc[d] = "read"
  /\ \E res \in ReadResults(d, errs), ev \in DeviceEvents(d), ub \in BOOLEAN :
       LET ie == IF res = "ev" THEN ev ELSE ZeroEvent
           k == KeyFilter(ie, ignoreNextValues[d], ignoredKeys, ub)
       IN  IF res = "zero"
           THEN /\ rpc' = [rpc EXCEPT ![d] = "loop"]
                /\ UNCHANGED <<ignoreNextValues, rd, sinceLastEvent, sawOff, offDone>>
           ELSE /\ ignoreNextValues' = [ignoreNextValues EXCEPT ![d] = k.ign]
                /\ IF k.correctKey
                   THEN /\ rpc' = [rpc EXCEPT ![d] = "test"]
                        /\ rd' = [rd EXCEPT ![d] = res]
                        /\ sinceLastEvent' = 0
                   ELSE /\ rpc' = [rpc EXCEPT ![d] = "loop"]
                        /\ UNCHANGED <<rd, sinceLastEvent>>
                /\ IF k.correctKey /\ res = "ev"
                   THEN /\ sawOff' = [sawOff EXCEPT ![d] = ctlOff /\ file = 0]
                        /\ offDone' = FALSE
                   ELSE UNCHANGED <<sawOff, offDone>>
  /\ UNCHANGED <<cfgVars, file, originalBrightness_, currentBrightness_, end_,
                 ctlVars, fds, closes, fHist, ctlOff, lostRestore>>

\* A reader that restores on every accepted event, without the test of line 318.
R_Test_Always(d) ==
  /\ Alive /\ rpc[d] = "test"
  /\ rpc' = [rpc EXCEPT ![d] = "write"]
  /\ UNCHANGED <<cfgVars, globVars, ctlVars, ignoreNextValues, rd, fds, closes,
                 fHist, histVars>>

\* Line 318.
R_Test(d) ==
  /\ Alive /\ rpc[d] = "test"
  /\ IF currentBrightness_ # originalBrightness_
     THEN /\ rpc' = [rpc EXCEPT ![d] = "write"]
          /\ UNCHANGED <<rd, sawOff, offDone>>
     ELSE /\ rpc' = [rpc EXCEPT ![d] = "loop"]
          /\ rd' = [rd EXCEPT ![d] = "none"]
          /\ sawOff' = [sawOff EXCEPT ![d] = FALSE]
          /\ offDone' = FALSE
  /\ UNCHANGED <<cfgVars, globVars, ctlVars, ignoreNextValues, fds, closes,
                 fHist, ctlOff, lostRestore>>

\* Line 319: file_write_uint64(brightnessPath, originalBrightness_), result
\* not looked at.
R_Write(d, oks) ==
  /\ Alive /\ rpc[d] = "write"
  /\ \E ok \in oks :
       IF ok
       THEN file' = originalBrightness_ /\ ctlOff' = FALSE /\ lostRestore' = FALSE
       ELSE lostRestore' = TRUE /\ UNCHANGED <<file, ctlOff>>
  /\ rpc' = [rpc EXCEPT ![d] = "setcur"]
  /\ UNCHANGED <<cfgVars, originalBrightness_, currentBrightness_, sinceLastEvent,
                 end_, ctlVars, ignoreNextValues, rd, fds, closes, fHist,
                 sawOff, offDone>>

\* Line 320.
R_SetCur(d) ==
  /\ Alive /\ rpc[d] = "setcur"
  /\ currentBrightness_' = originalBrightness_
  /\ rpc' = [rpc EXCEPT ![d] = "loop"]
  /\ rd' = [rd EXCEPT ![d] = "none"]
  /\ sawOff' = [sawOff EXCEPT ![d] = FALSE]
  /\ offDone' = FALSE
  /\ UNCHANGED <<cfgVars, file, originalBrightness_, sinceLastEvent, end_, ctlVars,
                 ignoreNextValues, fds, closes, fHist, ctlOff, lostRestore>>

\* Line 327: close(devFd).
R_Close(d) ==
  /\ Alive /\ rpc[d] = "close"
  /\ rpc' = [rpc EXCEPT ![d] = "done"]
  /\ IF fds[d] \in {"open", "closed"}
     THEN /\ fds' = [fds EXCEPT ![d] = "closed"]
          /\ closes' = [closes EXCEPT ![d] = Min(@ + 1, 2)]
     ELSE UNCHANGED <<fds, closes>>
  /\ UNCHANGED <<cfgVars, globVars, ctlVars, ignoreNextValues, rd, fHist, histVars>>

\* ----------------------------------------------------------- environment
\* Lines 330-339: SIGTERM is delivered.
signal_handler ==
  /\ mpc \in {"start", "run", "closing"}
  /\ ~end_
  /\ end_' = TRUE
  /\ UNCHANGED <<cfgVars, file, originalBrightness_, currentBrightness_,
                 sinceLastEvent, ctlVars, rdrVars, fHist, histVars>>

\* The clock advances by one tick.
Tick ==
  /\ mpc = "run"
  /\ sinceLastEvent' = Min(sinceLastEvent + 1, TimeoutTicks)
  /\ sleepLeft' = Max(sleepLeft - 1, 0)
  /\ UNCHANGED <<cfgVars, file, originalBrightness_, currentBrightness_, end_,
                 mpc, cpc, tmpBrightness, closeIdx, rdrVars, fHist, histVars>>

\* Another process (a hardware hot key) writes the control file.
ExternalWrite ==
  /\ mpc = "run"
  /\ \E v \in Values \ {file} : file' = v
  /\ ctlOff' = FALSE
  /\ offDone' = FALSE
  /\ lostRestore' = FALSE
  /\ UNCHANGED <<cfgVars, originalBrightness_, currentBrightness_, sinceLastEvent,
                 end_, ctlVars, rdrVars, fHist, sawOff>>

\* -------------------------------------------------------- specifications
Program(oks) ==
  \/ Main_Start(oks)
  \/ Main_Close
  \/ Main_Exit
  \/ Ctl_Start
  \/ Ctl_Loop
  \/ Ctl_Calc
  \/ Ctl_Wake
  \/ Ctl_Check
  \/ Ctl_Read(oks)
  \/ Ctl_SetOrig
  \/ Ctl_SetCur
  \/ Ctl_Write(oks)
  \/ Ctl_Rearm
  \/ \E d \in Devices : R_Loop(d)
  \/ \E d \in Devices : R_Read(d, oks)
  \/ \E d \in Devices : R_Test(d)
  \/ \E d \in Devices : R_Write(d, oks)
  \/ \E d \in Devices : R_SetCur(d)
  \/ \E d \in Devices : R_Close(d)
  \/ signal_handler
  \/ Tick

\* Everything: I/O failures and an external writer included.
Next == Program(IOany) \/ ExternalWrite

Spec == Init /\ [][Next]_vars

\* No I/O failure, no external writer, every device openable.
NextQuiet == Program(IOok)

QuietSpec == InitQuiet /\ [][NextQuiet]_vars

\* A run with the keyboard as the one input device, and writes to the control
\* file that may fail: every read succeeds, no other process writes the file.
InitKeyboard ==
  /\ InitQuiet
  /\ devState = [kbd |-> "ok", mouse |-> "none"]

NextWriteFault ==
  \/ Program(IOok)
  \/ Ctl_Write(IOany)
  \/ \E d \in Devices : R_Write(d, IOany)

WriteFaultSpec == InitKeyboard /\ [][NextWriteFault]_vars

\* QuietSpec with the scheduling the threads get: the thread that runs
\* brightness_control is not starved and the clock goes on.  Nothing is
\* assumed of the readers: a read() may block for ever.
Controller ==
  \/ Ctl_Start \/ Ctl_Loop \/ Ctl_Calc \/ Ctl_Wake \/ Ctl_Check
  \/ Ctl_Read(IOok) \/ Ctl_SetOrig \/ Ctl_SetCur \/ Ctl_Write(IOok) \/ Ctl_Rearm

LiveSpec == QuietSpec /\ WF_vars(Controller) /\ WF_vars(Tick)

\* The key filter alone: bursts of at most MaxEvents records, of any kind and
\* for any ignored-key set, fed to the filter of one reader (lines 292-308).
\* fHist keeps each record with its classification and the counter before and
\* after it.
KeySets == SUBSET KeyCodes

InitFilter ==
  /\ setBrightness = NoSetBrightness
  /\ devState = [kbd |-> "ok", mouse |-> "none"]
  /\ pathState = "ok"
  /\ ignoredKeys \in KeySets
  /\ InitState
  /\ file = 1

Feed ==
  /\ Len(fHist) < MaxEvents
  /\ \E ie \in Events, ub \in BOOLEAN :
       LET k == KeyFilter(ie, ignoreNextValues["kbd"], ignoredKeys, ub)
       IN  /\ ignoreNextValues' = [ignoreNextValues EXCEPT !["kbd"] = k.ign]
           /\ fHist' = Append(fHist, [ie |-> ie, correctKey |-> k.correctKey,
                                      before |-> ignoreNextValues["kbd"],
                                      after |-> k.ign])
  /\ UNCHANGED <<cfgVars, globVars, ctlVars, rpc, rd, fds, closes, histVars>>

FilterSpec == InitFilter /\ [][Feed]_vars

\* ================================================================ claims
ReaderStep(d) == rpc'[d] # rpc[d]
Finishes(d) == rpc[d] \in {"test", "setcur"} /\ rpc'[d] = "loop"
CtlWrites == cpc = "write" /\ cpc' = "rearm"
IgnoredScan(ie) == IsScan(ie) /\ ie.value \in ignoredKeys

\* C1: when the control file holds 0 because the controller extinguished it and
\* a reader then accepts an activity event, then at the step with which that
\* reader finishes handling the event the file holds originalBrightness_, which
\* is not 0, and currentBrightness_ = originalBrightness_.
C1_RestoreOnActivity ==
  [][\A d \in Devices :
       (Finishes(d) /\ sawOff[d]) =>
         /\ file' = originalBrightness_'
         /\ originalBrightness_' # 0
         /\ currentBrightness_' = originalBrightness_']_vars

\* C2: once the controller has written 0 in an idle period (no reader has
\* accepted an event and nothing else has written the file since), it does not
\* get to its write of 0 again in that period.
C2_ExtinguishOnce ==
  ~(cpc = "write" /\ offDone /\ file = 0 /\ \A d \in Devices : ~Handling(d))

\* C3: at the step with which the controller writes 0, at least the timeout
\* has passed since the activity clock, which every accepted event sets.
C3_ExtinguishOnlyWhenIdle ==
  [][CtlWrites => sinceLastEvent >= TimeoutTicks]_vars

\* C4: from the start of monitoring on currentBrightness_ is 0 or
\* originalBrightness_.
C4_CurrentZeroOrOriginal ==
  Alive => currentBrightness_ \in {0, originalBrightness_}

\* C5: an ignored scan code followed by 2 records that are not ignored scan
\* codes: all 3 are classified as non-activity, each of the 2 takes the counter
\* down by one, and the 4th record is classified as with no window armed.
C5_SuppressionWindow ==
  \A i \in 1..Len(fHist) :
    ( /\ i + 2 <= Len(fHist)
      /\ IgnoredScan(fHist[i].ie)
      /\ ~IgnoredScan(fHist[i + 1].ie)
      /\ ~IgnoredScan(fHist[i + 2].ie) )
    => /\ \A j \in i..(i + 2) : ~fHist[j].correctKey
       /\ \A j \in (i + 1)..(i + 2) : fHist[j].after = fHist[j].before - 1
       /\ (i + 3 <= Len(fHist) /\ ~IsScan(fHist[i + 3].ie))
            => fHist[i + 3].correctKey

\* C6: an ignored scan code right after an ignored scan code leaves the counter
\* at SuppressWindow, the 2 records after it (not ignored scan codes
\* themselves) are suppressed and the one after them, when it is no scan code,
\* is activity.
C6_RearmNotAdditive ==
  \A i \in 1..Len(fHist) :
    ( /\ i + 1 <= Len(fHist)
      /\ IgnoredScan(fHist[i].ie)
      /\ IgnoredScan(fHist[i + 1].ie) )
    => /\ fHist[i + 1].after = SuppressWindow
       /\ \A j \in (i + 2)..(i + 3) :
            (j <= Len(fHist) /\ \A m \in (i + 2)..j : ~IgnoredScan(fHist[m].ie))
              => ~fHist[j].correctKey
       /\ ( /\ i + 4 <= Len(fHist)
            /\ \A m \in (i + 2)..(i + 4) : ~IgnoredScan(fHist[m].ie)
            /\ ~IsScan(fHist[i + 4].ie) )
            => fHist[i + 4].correctKey

\* C7: a firing that reads v # 0 sets originalBrightness_ to v,
\* currentBrightness_ to 0 and writes 0, and the next accepted activity event
\* leaves the file at the captured value when its handling ends; a firing
\* that reads 0 writes nothing and leaves originalBrightness_ alone.
C7_CaptureAtFire ==
  [][ /\ (cpc = "read" /\ cpc' = "setorig") => tmpBrightness' = file
      /\ (cpc = "setorig" /\ cpc' = "setcur") =>
           originalBrightness_' = tmpBrightness /\ tmpBrightness # 0
      /\ (cpc = "setcur" /\ cpc' = "write") => currentBrightness_' = 0
      /\ CtlWrites => file' = 0
      /\ (cpc = "read" /\ file = 0 /\ cpc' # "read") =>
           cpc' = "rearm" /\ UNCHANGED <<file, originalBrightness_>>
      /\ \A d \in Devices :
           (Finishes(d) /\ sawOff[d]) => file' = originalBrightness_' ]_vars

\* C8: the process exits from monitoring only after brightness_control and
\* every reader have finished.
C8_ExitAfterJoin ==
  (mpc = "exit_ok" /\ ~OneShot) =>
    cpc = "done" /\ \A d \in Discovered : rpc[d] = "done"

\* C9 as stated: after a startup with a one-shot request and an existing,
\* writable control path the process has exited successfully, the file holds
\* the requested value and no reader and no controller was started.
C9_OneShotAsStated ==
  (mpc # "start" /\ setBrightness >= 0 /\ pathState = "ok") =>
    /\ mpc = "exit_ok"
    /\ file = setBrightness
    /\ cpc = "none"
    /\ \A d \in Devices : rpc[d] = "none"

\* C9, amended: the same when at least one input device was discovered.
C9_OneShot ==
  (mpc # "start" /\ setBrightness >= 0 /\ pathState = "ok" /\ Discovered # {}) =>
    /\ mpc = "exit_ok"
    /\ file = setBrightness
    /\ cpc = "none"
    /\ \A d \in Devices : rpc[d] = "none"

C9_Witness ==
  /\ mpc = "exit_ok"
  /\ setBrightness >= 0
  /\ Discovered # {}
  /\ file = setBrightness
  /\ file # originalBrightness_

\* C10: the iteration of a reader whose read failed leaves lastEvent_, the
\* control file, currentBrightness_ and originalBrightness_ alone.
C10_FailedReadAbsorbed ==
  [][\A d \in Devices :
       (ReaderStep(d) /\ (rd[d] = "err" \/ rd'[d] = "err")) =>
         UNCHANGED <<sinceLastEvent, file, currentBrightness_,
                     originalBrightness_>>]_vars

\* C11: a device that could not be opened has no reader, and no reader step
\* on its behalf touches lastEvent_ or the control file.
C11_UnopenableDropped ==
  [][\A d \in Devices :
       devState[d] = "bad" =>
         /\ rpc'[d] = "none"
         /\ ReaderStep(d) => UNCHANGED <<sinceLastEvent, file>>]_vars

\* C12: from the start of monitoring on originalBrightness_ is not 0, whatever
\* the control file held at startup.
C12_OriginalNonZero ==
  Alive => originalBrightness_ # 0

\* C13: the step that accepts an event sets the activity clock and nothing
\* else shared, and a reader that finds currentBrightness_ = originalBrightness_
\* at the test of its accepted event goes back to its loop with the control
\* file, currentBrightness_, originalBrightness_ and the clock as they were.
C13_EdgeTriggeredRestore ==
  [][\A d \in Devices :
       /\ (rpc[d] = "read" /\ rpc'[d] = "test") =>
            /\ sinceLastEvent' = 0
            /\ UNCHANGED <<file, currentBrightness_, originalBrightness_>>
       /\ (rpc[d] = "test" /\ ReaderStep(d)
             /\ currentBrightness_ = originalBrightness_) =>
            /\ rpc'[d] = "loop"
            /\ UNCHANGED <<file, currentBrightness_, originalBrightness_,
                           sinceLastEvent>>]_vars

\* An event read from the keyboard was accepted with the backlight on: the
\* clock is set, the file and both globals hold the same non-zero value.
C13_Witness ==
  /\ rpc["kbd"] = "test" /\ rd["kbd"] = "ev"
  /\ currentBrightness_ = originalBrightness_
  /\ originalBrightness_ # 0
  /\ file = originalBrightness_
  /\ sinceLastEvent = 0

\* C14: a reader step that ends an iteration without accepting the record (an
\* ignored scan code, a record inside the suppression window, a read of 0
\* bytes) leaves lastEvent_, currentBrightness_, originalBrightness_ and the
\* control file alone and goes back to the loop test; and a lit backlight is
\* switched off unless an event is accepted or the shutdown flag is raised,
\* however many records are not accepted meanwhile.
C14_NonActivityFrame ==
  /\ [][\A d \in Devices :
          (rpc[d] = "read" /\ ReaderStep(d) /\ rpc'[d] # "test") =>
            /\ rpc'[d] = "loop"
            /\ UNCHANGED <<sinceLastEvent, currentBrightness_,
                           originalBrightness_, file>>]_vars
  /\ (mpc = "run" /\ file # 0) ~>
       (file = 0 \/ end_ \/ \E d \in Devices : Handling(d))

\* The keyboard reader has taken an ignored scan code and a record inside the
\* window, no event was accepted for the timeout and the controller has just
\* written 0.
C14_Witness ==
  /\ ignoreNextValues["kbd"] = SuppressWindow - 1
  /\ rpc["kbd"] = "loop"
  /\ cpc = "rearm" /\ ctlOff /\ file = 0
  /\ originalBrightness_ # 0
  /\ sinceLastEvent >= TimeoutTicks

\* C15: a read of the control file by the controller that did not deliver the
\* content of the file (the read failed) is followed by the re-arm, not by the
\* assignments and the write of the firing.
C15_FailedReadSkipped ==
  [][(cpc = "read" /\ cpc' # "read" /\ tmpBrightness' # file) =>
       cpc' = "rearm"]_vars

\* C16: after the write of a reader's restore has failed (and no write to the
\* file has succeeded since), a reader that handles an accepted event while the
\* file does not hold originalBrightness_ goes on to write it.
C16_FailedWriteConfined ==
  [][\A d \in Devices :
       (rpc[d] = "test" /\ ReaderStep(d) /\ lostRestore
          /\ file # originalBrightness_) =>
         rpc'[d] = "write"]_vars

\* C17: the loop test of brightness_control that finds end_ set ends the loop,
\* and once end_ is set while brightness_control runs it returns, with no
\* assumption on the readers.
C17_ControllerTerminates ==
  /\ [][(cpc = "loop" /\ end_ /\ cpc' # cpc) => cpc' = "done"]_vars
  /\ (end_ /\ mpc = "run") ~> (cpc = "done")

\* brightness_control has returned after the signal while the keyboard
\* reader is still inside read().
C17_Witness ==
  /\ end_ /\ cpc = "done"
  /\ rpc["kbd"] = "read"

\* C18: a handle is closed at most once, and only by its own reader, which is
\* then past its loop.
C18_ClosedOnceByReader ==
  \A d \in Devices :
    /\ closes[d] <= 1
    /\ closes[d] >= 1 => rpc[d] = "done"

\* C19: the controller comes back to its loop test from a firing only through
\* the assignment that sets lastEvent_ to now, whether it wrote 0 or not; when
\* less than the timeout had passed it comes back with lastEvent_ as it was;
\* and it fires only when the timeout has passed since lastEvent_, so since
\* the re-arm of the firing before.
C19_RearmAfterFiring ==
  [][ /\ (cpc = "check" /\ cpc' = "read") => sinceLastEvent >= TimeoutTicks
      /\ (cpc = "check" /\ cpc' = "loop") =>
           sinceLastEvent < TimeoutTicks /\ UNCHANGED sinceLastEvent
      /\ (cpc = "read" /\ cpc' # cpc) => cpc' \in {"setorig", "rearm"}
      /\ (cpc = "setorig" /\ cpc' # cpc) => cpc' = "setcur"
      /\ (cpc = "setcur" /\ cpc' # cpc) => cpc' = "write"
      /\ (cpc = "write" /\ cpc' # cpc) => cpc' = "rearm"
      /\ (cpc = "rearm" /\ cpc' # cpc) => cpc' = "loop" /\ sinceLastEvent' = 0
      /\ (cpc \in {"read", "setorig", "setcur", "write"} /\ cpc' # cpc) =>
           UNCHANGED sinceLastEvent ]_vars

\* The controller is back at its loop test, re-armed, after a second firing in
\* one idle period: the first wrote 0, the second read 0 and wrote nothing.
C19_Witness ==
  /\ cpc = "loop" /\ sinceLastEvent = 0
  /\ offDone /\ file = 0
  /\ tmpBrightness = 0
  /\ originalBrightness_ # 0

\* C20: a scan code whose value is no key of ignoredKeys, taken while no
\* window is armed, is classified as activity and leaves the counter at 0.
C20_AbsentKeyNotIgnored ==
  \A i \in 1..Len(fHist) :
    (IsScan(fHist[i].ie) /\ fHist[i].ie.value \notin ignoredKeys
       /\ fHist[i].before = 0) =>
      fHist[i].correctKey /\ fHist[i].after = 0

====
